---- MODULE Spec2Model ----
(***************************************************************************)
(* Model of netpoll_options.go: the functional options of an EventLoop     *)
(* (WithOnPrepare, WithReadTimeout, WithIdleTimeout), the resolved         *)
(* `options` value, the lifecycle hook returned by options.prepare, and    *)
(* the three process-wide tuning passthroughs (SetNumLoops,                *)
(* SetLoadBalance, DisableGopool).                                         *)
(*                                                                         *)
(* The hook is modelled one statement per step (lines 81..87), so that     *)
(* invocations on different connections interleave.                        *)
(***************************************************************************)
EXTENDS Integers, Sequences, FiniteSets

\* ---------------------------------------------------------------- bounds
MaxOpts == 4      \* longest Option sequence handed to the constructor
MaxDur == 1       \* largest duration an Option carries
NumConns == 2     \* connections accepted by the engine
MaxLoops == 2     \* largest poller count passed to SetNumLoops
MaxTune == 2      \* number of tuning calls explored

\* ---------------------------------------------------------------- values
\* time.Duration arguments: negative, zero (no timeout) and positive
Durations == (0 - 1)..MaxDur

\* the OnRequest handlers a caller may bind
Handlers == {"h1", "h2"}

Conns == 1..NumConns

\* A caller-supplied OnPrepare callback is opaque to this file.  It is
\* described by what it does to the connection it receives (setRead: the
\* read timeout it sets, if any), the context it returns and whether it
\* panics instead of returning.
Nil == [name |-> "nil", setRead |-> <<>>, ret |-> "none", panics |-> FALSE]

Callbacks ==
    { [name |-> "cbOverride", setRead |-> <<1>>, ret |-> "ctx42", panics |-> FALSE],
      [name |-> "cbPlain", setRead |-> <<>>, ret |-> "ctx7", panics |-> FALSE],
      [name |-> "cbPanic", setRead |-> <<>>, ret |-> "none", panics |-> TRUE],
      [name |-> "cbOverridePanic", setRead |-> <<1>>, ret |-> "none", panics |-> TRUE] }

\* context.Background(), and the absence of a returned context
Background == [ctx |-> "background", conn |-> 0]
NoCtx == [ctx |-> "none", conn |-> 0]

\* the context a callback returns for the connection it was given
CallbackCtx(cb, c) == [ctx |-> cb.ret, conn |-> c]

\* a connection on which no setter has been called yet: each field holds
\* the last value passed to its setter, <<>> when there was none
FreshConn == [onRequest |-> <<>>, readTimeout |-> <<>>, idleTimeout |-> <<>>]

\* the zero value of `options`
ZeroOptions == [onPrepare |-> Nil, readTimeout |-> 0, idleTimeout |-> 0]

Fields == {"onPrepare", "readTimeout", "idleTimeout"}

\* every value an `options` struct can hold within the bounds
Configurations ==
    [onPrepare : Callbacks \cup {Nil}, readTimeout : Durations, idleTimeout : Durations]

\* the engine's process-wide tuning state before any call
EngineInit ==
    [numLoops |-> 1, loadBalance |-> 0, gopoolDisabled |-> FALSE,
     calls |-> 0, lastOp |-> "none", lastArg |-> 0, lastRet |-> "none"]

ApiInit == [calls |-> 0, lastOp |-> "none", lastArg |-> 0, lastRet |-> "none"]

NumLoopsArgs == (0 - 1)..MaxLoops
LoadBalanceArgs == {0, 1, 2}
ValidLoadBalance == {0, 1}

VARIABLES
    phase,     \* "build": Options are created; "resolve": the constructor folds
               \* them; "serve": the hook exists and the engine invokes it
    opts,      \* the Options created so far, in caller order
    applied,   \* how many of them the constructor has applied
    opt,       \* the options struct
    hook,      \* what the closure returned by prepare captured
    conn,      \* conn[c]: the connection's handler and timeouts
    pc,        \* pc[c]: position of the hook invocation on connection c
    seen,      \* seen[c]: the connection as the callback found it on entry
    ret,       \* ret[c]: the context the hook invocation returned
    cbCalls,   \* cbCalls[c]: times the callback was invoked for connection c
    engine,    \* the engine's tuning state and its record of the last call
    api        \* what the passthroughs were called with and returned

vars == <<phase, opts, applied, opt, hook, conn, pc, seen, ret, cbCalls, engine, api>>

optionVars == <<phase, opts, applied, opt, hook>>
connVars == <<conn, pc, seen, ret, cbCalls>>
tuneVars == <<engine, api>>

Init ==
    /\ phase = "build"
    /\ opts = <<>>
    /\ applied = 0
    /\ opt = ZeroOptions
    /\ hook = [bound |-> FALSE, onRequest |-> "none"]
    /\ conn = [c \in Conns |-> FreshConn]
    /\ pc = [c \in Conns |-> "idle"]
    /\ seen = [c \in Conns |-> FreshConn]
    /\ ret = [c \in Conns |-> NoCtx]
    /\ cbCalls = [c \in Conns |-> 0]
    /\ engine = EngineInit
    /\ api = ApiInit

\* ------------------------------------------------- Options (lines 47..71)

\* An Option wraps one closure over *options.  It is represented by the
\* field its closure assigns and the value the factory captured.
MkOption(field, cb, dur) == [field |-> field, cb |-> cb, dur |-> dur]

\* the closure built by WithOnPrepare: op.onPrepare = onPrepare
onPrepareF(onPrepare, op) == [op EXCEPT !.onPrepare = onPrepare]

\* a closure that only ever raises the timeout
readTimeoutFMax(timeout, op) ==
    IF timeout > op.readTimeout THEN [op EXCEPT !.readTimeout = timeout] ELSE op

\* the closure built by WithReadTimeout: op.readTimeout = timeout
readTimeoutF(timeout, op) == [op EXCEPT !.readTimeout = timeout]

\* a closure that clamps a negative duration to zero
idleTimeoutFClamped(timeout, op) ==
    [op EXCEPT !.idleTimeout = IF timeout < 0 THEN 0 ELSE timeout]

\* a closure that assigns the idle timeout and resets the read timeout
idleTimeoutFResetsRead(timeout, op) ==
    [op EXCEPT !.idleTimeout = timeout, !.readTimeout = 0]

\* the closure built by WithIdleTimeout: op.idleTimeout = timeout
idleTimeoutF(timeout, op) == [op EXCEPT !.idleTimeout = timeout]

\* Option.f: running the wrapped closure on an options value
f(o, op) ==
    CASE o.field = "onPrepare" -> onPrepareF(o.cb, op)
      [] o.field = "readTimeout" -> readTimeoutF(o.dur, op)
      [] o.field = "idleTimeout" -> idleTimeoutF(o.dur, op)

\* WithOnPrepare(onPrepare): returns an Option, touches nothing else
WithOnPrepare(onPrepare) ==
    /\ phase = "build"
    /\ Len(opts) < MaxOpts
    /\ opts' = Append(opts, MkOption("onPrepare", onPrepare, 0))
    /\ UNCHANGED <<phase, applied, opt, hook, connVars, tuneVars>>

\* WithReadTimeout(timeout)
WithReadTimeout(timeout) ==
    /\ phase = "build"
    /\ Len(opts) < MaxOpts
    /\ opts' = Append(opts, MkOption("readTimeout", Nil, timeout))
    /\ UNCHANGED <<phase, applied, opt, hook, connVars, tuneVars>>

\* WithIdleTimeout(timeout)
WithIdleTimeout(timeout) ==
    /\ phase = "build"
    /\ Len(opts) < MaxOpts
    /\ opts' = Append(opts, MkOption("idleTimeout", Nil, timeout))
    /\ UNCHANGED <<phase, applied, opt, hook, connVars, tuneVars>>

\* ------------------------------------ the service constructor (resolution)

\* the constructor is entered with the Options built so far and a zero
\* options value
StartResolve ==
    /\ phase = "build"
    /\ phase' = "resolve"
    /\ applied' = 0
    /\ opt' = ZeroOptions
    /\ UNCHANGED <<opts, hook, connVars, tuneVars>>

\* one iteration of the constructor's loop: the next Option, in caller
\* order, is applied to the options value
ApplyNext ==
    /\ phase = "resolve"
    /\ applied < Len(opts)
    /\ opt' = f(opts[applied + 1], opt)
    /\ applied' = applied + 1
    /\ UNCHANGED <<phase, opts, hook, connVars, tuneVars>>

\* options.prepare(onRequest): the returned closure captures opt (by
\* reference) and onRequest
prepare(onRequest) == [bound |-> TRUE, onRequest |-> onRequest]

\* the constructor asks for the hook once every Option is applied, hands it
\* to the engine and drops the Option slice
Construct(onRequest) ==
    /\ phase = "resolve"
    /\ applied = Len(opts)
    /\ hook' = prepare(onRequest)
    /\ phase' = "serve"
    /\ opts' = <<>>
    /\ applied' = 0
    /\ UNCHANGED <<opt, connVars, tuneVars>>

\* ------------------------------- the hook returned by prepare (lines 80..88)

\* the engine invokes the hook on a newly accepted connection
Invoke(c) ==
    /\ phase = "serve"
    /\ hook.bound
    /\ pc[c] = "idle"
    /\ pc' = [pc EXCEPT ![c] = "L81"]
    /\ UNCHANGED <<optionVars, conn, seen, ret, cbCalls, tuneVars>>

\* line 81: connection.SetOnRequest(onRequest)
HookSetOnRequest(c) ==
    /\ pc[c] = "L81"
    /\ conn' = [conn EXCEPT ![c].onRequest = <<hook.onRequest>>]
    /\ pc' = [pc EXCEPT ![c] = "L82"]
    /\ UNCHANGED <<optionVars, seen, ret, cbCalls, tuneVars>>

\* line 82 left out when a callback is configured
HookSetReadTimeoutUnlessCallback(c) ==
    /\ pc[c] = "L82"
    /\ conn' = IF opt.onPrepare = Nil
               THEN [conn EXCEPT ![c].readTimeout = <<opt.readTimeout>>]
               ELSE conn
    /\ pc' = [pc EXCEPT ![c] = "L83"]
    /\ UNCHANGED <<optionVars, seen, ret, cbCalls, tuneVars>>

\* line 82 consuming the timeout: the options value is cleared after use
HookSetReadTimeoutConsumes(c) ==
    /\ pc[c] = "L82"
    /\ conn' = [conn EXCEPT ![c].readTimeout = <<opt.readTimeout>>]
    /\ opt' = [opt EXCEPT !.readTimeout = 0]
    /\ pc' = [pc EXCEPT ![c] = "L83"]
    /\ UNCHANGED <<phase, opts, applied, hook, seen, ret, cbCalls, tuneVars>>

\* line 82: connection.SetReadTimeout(opt.readTimeout)
HookSetReadTimeout(c) ==
    /\ pc[c] = "L82"
    /\ conn' = [conn EXCEPT ![c].readTimeout = <<opt.readTimeout>>]
    /\ pc' = [pc EXCEPT ![c] = "L83"]
    /\ UNCHANGED <<optionVars, seen, ret, cbCalls, tuneVars>>

\* line 83 applied to every connection the engine holds, not only to c
HookSetIdleTimeoutAll(c) ==
    /\ pc[c] = "L83"
    /\ conn' = [d \in Conns |-> [conn[d] EXCEPT !.idleTimeout = <<opt.idleTimeout>>]]
    /\ pc' = [pc EXCEPT ![c] = "L84"]
    /\ UNCHANGED <<optionVars, seen, ret, cbCalls, tuneVars>>

\* line 83 skipped for a zero idle timeout
HookSetIdleTimeoutSkipsZero(c) ==
    /\ pc[c] = "L83"
    /\ conn' = IF opt.idleTimeout = 0
               THEN conn
               ELSE [conn EXCEPT ![c].idleTimeout = <<opt.idleTimeout>>]
    /\ pc' = [pc EXCEPT ![c] = "L84"]
    /\ UNCHANGED <<optionVars, seen, ret, cbCalls, tuneVars>>

\* line 83: connection.SetIdleTimeout(opt.idleTimeout)
HookSetIdleTimeout(c) ==
    /\ pc[c] = "L83"
    /\ conn' = [conn EXCEPT ![c].idleTimeout = <<opt.idleTimeout>>]
    /\ pc' = [pc EXCEPT ![c] = "L84"]
    /\ UNCHANGED <<optionVars, seen, ret, cbCalls, tuneVars>>

\* lines 84..85: opt.onPrepare != nil, the callback is entered with the
\* connection and finds it as the three setters left it
HookCallOnPrepare(c) ==
    /\ pc[c] = "L84"
    /\ opt.onPrepare # Nil
    /\ seen' = [seen EXCEPT ![c] = conn[c]]
    /\ cbCalls' = [cbCalls EXCEPT ![c] = cbCalls[c] + 1]
    /\ pc' = [pc EXCEPT ![c] = "L85"]
    /\ UNCHANGED <<optionVars, conn, ret, tuneVars>>

\* line 87 returning a nil context
HookBackgroundNil(c) ==
    /\ pc[c] = "L84"
    /\ opt.onPrepare = Nil
    /\ ret' = [ret EXCEPT ![c] = NoCtx]
    /\ pc' = [pc EXCEPT ![c] = "done"]
    /\ UNCHANGED <<optionVars, conn, seen, cbCalls, tuneVars>>

\* lines 84, 87: opt.onPrepare == nil, return context.Background()
HookBackground(c) ==
    /\ pc[c] = "L84"
    /\ opt.onPrepare = Nil
    /\ ret' = [ret EXCEPT ![c] = Background]
    /\ pc' = [pc EXCEPT ![c] = "done"]
    /\ UNCHANGED <<optionVars, conn, seen, cbCalls, tuneVars>>

\* what the callback's own body does to the connection it was given
CallbackEffect(cb, k) ==
    IF cb.setRead = <<>> THEN k ELSE [k EXCEPT !.readTimeout = cb.setRead]

\* line 85: the callback runs and returns; return opt.onPrepare(connection)
HookReturn(c) ==
    /\ pc[c] = "L85"
    /\ ~opt.onPrepare.panics
    /\ conn' = [conn EXCEPT ![c] = CallbackEffect(opt.onPrepare, conn[c])]
    /\ ret' = [ret EXCEPT ![c] = CallbackCtx(opt.onPrepare, c)]
    /\ pc' = [pc EXCEPT ![c] = "done"]
    /\ UNCHANGED <<optionVars, seen, cbCalls, tuneVars>>

\* line 85 wrapped in a recover that returns Background
HookPanicRecovered(c) ==
    /\ pc[c] = "L85"
    /\ opt.onPrepare.panics
    /\ conn' = [conn EXCEPT ![c] = CallbackEffect(opt.onPrepare, conn[c])]
    /\ ret' = [ret EXCEPT ![c] = Background]
    /\ pc' = [pc EXCEPT ![c] = "done"]
    /\ UNCHANGED <<optionVars, seen, cbCalls, tuneVars>>

\* line 85: the callback panics; the closure has no defer/recover, so the
\* panic unwinds through it to the caller and nothing is returned
HookPanic(c) ==
    /\ pc[c] = "L85"
    /\ opt.onPrepare.panics
    /\ conn' = [conn EXCEPT ![c] = CallbackEffect(opt.onPrepare, conn[c])]
    /\ pc' = [pc EXCEPT ![c] = "panicked"]
    /\ UNCHANGED <<optionVars, seen, ret, cbCalls, tuneVars>>

\* ------------------------------------ tuning passthroughs (lines 27..45)

\* The engine behind setNumLoops, setLoadBalance and disableGopool is a
\* collaborator.  Its answer is its own: a negative poller count is
\* rejected, a positive one and a known strategy are accepted, anything
\* else it may accept or reject.
EngineResults(op, arg) ==
    CASE op = "setNumLoops" ->
             IF arg < 0 THEN {"err"} ELSE IF arg = 0 THEN {"ok", "err"} ELSE {"ok"}
      [] op = "setLoadBalance" ->
             IF arg \in ValidLoadBalance THEN {"ok"} ELSE {"ok", "err"}
      [] op = "disableGopool" -> {"ok", "err"}

\* the engine records the call and, on success, changes its state
engineCall(e, op, arg, r) ==
    LET logged == [e EXCEPT !.calls = e.calls + 1, !.lastOp = op,
                            !.lastArg = arg, !.lastRet = r]
    IN IF r # "ok" THEN logged
       ELSE CASE op = "setNumLoops" -> [logged EXCEPT !.numLoops = arg]
              [] op = "setLoadBalance" -> [logged EXCEPT !.loadBalance = arg]
              [] op = "disableGopool" -> [logged EXCEPT !.gopoolDisabled = TRUE]

\* what a passthrough was called with and what it returned to its caller
apiReturn(a, op, arg, r) ==
    [a EXCEPT !.calls = a.calls + 1, !.lastOp = op, !.lastArg = arg, !.lastRet = r]

\* SetNumLoops rejecting a non-positive count itself, without the engine
SetNumLoopsValidates(numLoops) ==
    /\ api.calls < MaxTune
    /\ IF numLoops < 1
       THEN /\ api' = apiReturn(api, "setNumLoops", numLoops, "err")
            /\ engine' = engine
       ELSE \E r \in EngineResults("setNumLoops", numLoops) :
                /\ engine' = engineCall(engine, "setNumLoops", numLoops, r)
                /\ api' = apiReturn(api, "setNumLoops", numLoops, r)
    /\ UNCHANGED <<optionVars, connVars>>

\* SetNumLoops(numLoops): return setNumLoops(numLoops)
SetNumLoops(numLoops) ==
    /\ api.calls < MaxTune
    /\ \E r \in EngineResults("setNumLoops", numLoops) :
           /\ engine' = engineCall(engine, "setNumLoops", numLoops, r)
           /\ api' = apiReturn(api, "setNumLoops", numLoops, r)
    /\ UNCHANGED <<optionVars, connVars>>

\* SetLoadBalance(lb): return setLoadBalance(lb)
SetLoadBalance(lb) ==
    /\ api.calls < MaxTune
    /\ \E r \in EngineResults("setLoadBalance", lb) :
           /\ engine' = engineCall(engine, "setLoadBalance", lb, r)
           /\ api' = apiReturn(api, "setLoadBalance", lb, r)
    /\ UNCHANGED <<optionVars, connVars>>

\* DisableGopool(): return disableGopool()
DisableGopool ==
    /\ api.calls < MaxTune
    /\ \E r \in EngineResults("disableGopool", 0) :
           /\ engine' = engineCall(engine, "disableGopool", 0, r)
           /\ api' = apiReturn(api, "disableGopool", 0, r)
    /\ UNCHANGED <<optionVars, connVars>>

\* ------------------------------------------------------- specifications

Next ==
    \/ \E cb \in Callbacks \cup {Nil} : WithOnPrepare(cb)
    \/ \E t \in Durations : WithReadTimeout(t)
    \/ \E t \in Durations : WithIdleTimeout(t)
    \/ StartResolve
    \/ ApplyNext
    \/ \E h \in Handlers : Construct(h)
    \/ \E c \in Conns : Invoke(c)
    \/ \E c \in Conns : HookSetOnRequest(c)
    \/ \E c \in Conns : HookSetReadTimeout(c)
    \/ \E c \in Conns : HookSetIdleTimeout(c)
    \/ \E c \in Conns : HookCallOnPrepare(c)
    \/ \E c \in Conns : HookBackground(c)
    \/ \E c \in Conns : HookReturn(c)
    \/ \E c \in Conns : HookPanic(c)

\* Options, resolution and every interleaving of hook invocations
Spec == Init /\ [][Next]_vars

\* The tuning passthroughs touch only the engine.  They are explored on their
\* own, beside every options value a resolution can produce.
InitTuning ==
    /\ phase = "serve"
    /\ opts = <<>>
    /\ applied = 0
    /\ opt \in Configurations
    /\ hook \in {prepare(h) : h \in Handlers}
    /\ conn = [c \in Conns |-> FreshConn]
    /\ pc = [c \in Conns |-> "idle"]
    /\ seen = [c \in Conns |-> FreshConn]
    /\ ret = [c \in Conns |-> NoCtx]
    /\ cbCalls = [c \in Conns |-> 0]
    /\ engine = EngineInit
    /\ api = ApiInit

NextTuning ==
    \/ \E n \in NumLoopsArgs : SetNumLoops(n)
    \/ \E lb \in LoadBalanceArgs : SetLoadBalance(lb)
    \/ DisableGopool

SpecTuning == InitTuning /\ [][NextTuning]_vars

\* ----------------------------------------------------------- properties

\* what the three setters of lines 81..83 leave on a fresh connection
Installed ==
    [onRequest |-> <<hook.onRequest>>,
     readTimeout |-> <<opt.readTimeout>>,
     idleTimeout |-> <<opt.idleTimeout>>]

\* the read timeout a connection ends with: the callback's own, if it set one
FinalReadTimeout ==
    IF opt.onPrepare.setRead # <<>> THEN opt.onPrepare.setRead ELSE <<opt.readTimeout>>

Resolved == phase = "resolve" /\ applied = Len(opts)

\* positions among the first k Options whose closure assigns field fld
Targets(s, k, fld) == {i \in 1..k : s[i].field = fld}

Last(S) == CHOOSE i \in S : \A j \in S : j <= i

\* the options value last-writer-wins prescribes for the first k Options
LastWriter(s, k) ==
    LET cbs == Targets(s, k, "onPrepare")
        rds == Targets(s, k, "readTimeout")
        ids == Targets(s, k, "idleTimeout")
    IN [onPrepare |-> IF cbs = {} THEN Nil ELSE s[Last(cbs)].cb,
        readTimeout |-> IF rds = {} THEN 0 ELSE s[Last(rds)].dur,
        idleTimeout |-> IF ids = {} THEN 0 ELSE s[Last(ids)].dur]

\* C1: at every point of the resolution, each field of the options value is
\* the value carried by the last applied Option that targets it (the zero
\* value when none does), whatever earlier Options for that field carried.
C1_LastWriterWins ==
    phase = "resolve" => opt = LastWriter(opts, applied)

\* a larger read timeout followed by a smaller one, and a callback followed
\* by a nil callback, both resolved to the later value
C1_Witness ==
    /\ Resolved
    /\ \E i, j \in 1..Len(opts) :
           /\ i < j
           /\ opts[i].field = "readTimeout" /\ opts[j].field = "readTimeout"
           /\ opts[i].dur > opts[j].dur
           /\ opt.readTimeout = opts[j].dur
    /\ \E i, j \in 1..Len(opts) :
           /\ i < j
           /\ opts[i].field = "onPrepare" /\ opts[j].field = "onPrepare"
           /\ opts[i].cb # Nil /\ opts[j].cb = Nil
           /\ opt.onPrepare = Nil

\* the resolution of a whole Option sequence: a fold of Option.f over the
\* zero value
RECURSIVE Fold(_)
Fold(s) == IF s = <<>> THEN ZeroOptions ELSE f(s[Len(s)], Fold(SubSeq(s, 1, Len(s) - 1)))

Orderings(n) == {p \in [1..n -> 1..n] : \A i, j \in 1..n : p[i] = p[j] => i = j}

DisjointFields(s) == \A i, j \in 1..Len(s) : s[i].field = s[j].field => i = j

\* C5: when no two Options target the same field, every permutation of the
\* sequence resolves to the options value the constructor reached, and that
\* value holds each Option's value in its field and zero in the others.
C5_OrderIndependent ==
    (Resolved /\ DisjointFields(opts)) =>
        /\ \A p \in Orderings(Len(opts)) :
               Fold([i \in 1..Len(opts) |-> opts[p[i]]]) = opt
        /\ \A fld \in Fields :
               IF \E i \in 1..Len(opts) : opts[i].field = fld
               THEN \A i \in 1..Len(opts) :
                        opts[i].field = fld =>
                            CASE fld = "onPrepare" -> opt.onPrepare = opts[i].cb
                              [] fld = "readTimeout" -> opt.readTimeout = opts[i].dur
                              [] fld = "idleTimeout" -> opt.idleTimeout = opts[i].dur
               ELSE opt[fld] = ZeroOptions[fld]

\* an idle timeout applied before a non-zero read timeout, and a resolution
\* that leaves a field untargeted
C5_Witness ==
    /\ Resolved
    /\ DisjointFields(opts)
    /\ Len(opts) = 2
    /\ opts[1].field = "idleTimeout" /\ opts[2].field = "readTimeout"
    /\ opt.readTimeout # 0 /\ opt.idleTimeout # 0
    /\ opt.onPrepare = Nil

\* C9: a factory call appends an Option and changes neither the options
\* value nor any connection; applying an Option changes exactly the field
\* its factory targets, to the value the factory was given.
C9_DeferredMutation ==
    [][/\ Len(opts') > Len(opts) =>
              (opt' = opt /\ conn' = conn /\ applied' = applied /\ hook' = hook)
       /\ applied' = applied + 1 =>
              LET o == opts[applied']
              IN CASE o.field = "onPrepare" -> opt' = [opt EXCEPT !.onPrepare = o.cb]
                   [] o.field = "readTimeout" -> opt' = [opt EXCEPT !.readTimeout = o.dur]
                   [] o.field = "idleTimeout" -> opt' = [opt EXCEPT !.idleTimeout = o.dur]
      ]_vars

\* a negative idle timeout applied after the other two fields were set
C9_Witness ==
    /\ phase = "resolve"
    /\ applied = 3
    /\ opts[3].field = "idleTimeout" /\ opts[3].dur < 0
    /\ opt.idleTimeout = opts[3].dur
    /\ opt.readTimeout # 0 /\ opt.onPrepare # Nil

\* C10: resolution cannot fail: it always has a next step, every field of
\* the options value is defined throughout, the empty sequence resolves to
\* the zero value, and the hook of a zero value sets both timeouts to 0 and
\* returns the background context.
C10_ResolutionTotal ==
    /\ opt \in Configurations
    /\ phase = "resolve" => ENABLED (ApplyNext \/ \E h \in Handlers : Construct(h))
    /\ (phase = "resolve" /\ opts = <<>>) => opt = ZeroOptions
    /\ \A c \in Conns :
           (phase = "serve" /\ opt = ZeroOptions /\ pc[c] = "done") =>
               /\ conn[c].readTimeout = <<0>>
               /\ conn[c].idleTimeout = <<0>>
               /\ conn[c].onRequest = <<hook.onRequest>>
               /\ ret[c] = Background

\* the hook of the zero value has run on a connection
C10_Witness ==
    /\ phase = "serve"
    /\ opt = ZeroOptions
    /\ \E c \in Conns :
           /\ pc[c] = "done"
           /\ conn[c].readTimeout = <<0>> /\ conn[c].idleTimeout = <<0>>
           /\ ret[c] = Background

\* the callback for connection c has been entered
Entered(c) == pc[c] \in {"L85", "done", "panicked"} /\ opt.onPrepare # Nil

\* C2: with a callback configured, the callback finds the handler and both
\* resolved timeouts already on the connection when it is entered; when the
\* hook returns, a read timeout the callback set is the connection's read
\* timeout, and the hook's result is the context the callback returned.
C2_CallbackAfterSetup ==
    \A c \in Conns :
        /\ Entered(c) => seen[c] = Installed
        /\ (Entered(c) /\ pc[c] = "done") =>
               /\ ret[c] = CallbackCtx(opt.onPrepare, c)
               /\ conn[c].onRequest = <<hook.onRequest>>
               /\ conn[c].idleTimeout = <<opt.idleTimeout>>
               /\ conn[c].readTimeout = FinalReadTimeout

\* a callback that replaces a different resolved read timeout and returns
\* ctx42
C2_Witness ==
    \E c \in Conns :
        /\ pc[c] = "done"
        /\ opt.onPrepare.name = "cbOverride"
        /\ opt.readTimeout # 1 /\ opt.idleTimeout # 0
        /\ seen[c].readTimeout = <<opt.readTimeout>>
        /\ conn[c].readTimeout = <<1>>
        /\ ret[c].ctx = "ctx42"

\* C3: without a callback, a finished hook invocation leaves the connection
\* with the bound handler, the resolved read timeout and the resolved idle
\* timeout, and has returned the background context.
C3_NoCallback ==
    \A c \in Conns :
        (phase = "serve" /\ opt.onPrepare = Nil /\ pc[c] = "done") =>
            /\ conn[c] = Installed
            /\ ret[c] = Background

\* two different non-zero timeouts installed without a callback
C3_Witness ==
    \E c \in Conns :
        /\ pc[c] = "done"
        /\ opt.onPrepare = Nil
        /\ opt.readTimeout > 0 /\ opt.idleTimeout < 0
        /\ conn[c] = Installed
        /\ ret[c] = Background

\* what connection c must hold at each position of its own invocation,
\* whatever the other invocations are doing
OwnProgress(c) ==
    CASE pc[c] \in {"idle", "L81"} -> conn[c] = FreshConn
      [] pc[c] = "L82" -> conn[c] = [FreshConn EXCEPT !.onRequest = <<hook.onRequest>>]
      [] pc[c] = "L83" -> conn[c] = [Installed EXCEPT !.idleTimeout = <<>>]
      [] pc[c] \in {"L84", "L85"} -> conn[c] = Installed
      [] pc[c] = "done" ->
             /\ conn[c] = [Installed EXCEPT !.readTimeout = FinalReadTimeout]
             /\ ret[c] = IF opt.onPrepare = Nil THEN Background
                         ELSE CallbackCtx(opt.onPrepare, c)
      [] pc[c] = "panicked" -> TRUE

\* C4: under every interleaving of the invocations' steps, each connection
\* holds exactly what its own invocation has done so far and ends with the
\* configuration's handler and timeouts (with a callback, with its own
\* callback's result); a step of one invocation leaves the options value and
\* every other connection, its result included, untouched.
C4_NoCrossTalk ==
    /\ [](\A c \in Conns : OwnProgress(c))
    /\ [][phase = "serve" =>
              /\ opt' = opt
              /\ \A c \in Conns :
                     pc'[c] = pc[c] =>
                         (conn'[c] = conn[c] /\ ret'[c] = ret[c] /\ seen'[c] = seen[c])
         ]_vars

\* one invocation finished with its own callback result while another is
\* between its setters
C4_Witness ==
    \E c, d \in Conns :
        /\ c # d
        /\ pc[c] = "done" /\ pc[d] = "L83"
        /\ opt.onPrepare # Nil
        /\ ret[c] = CallbackCtx(opt.onPrepare, c)
        /\ conn[d].idleTimeout = <<>>
        /\ opt.idleTimeout # 0

\* what the hook installed on a connection whose setters have all run
InstalledView(c) == IF Entered(c) THEN seen[c] ELSE conn[c]

PastSetters(c) == pc[c] \in {"L84", "L85", "done", "panicked"}

\* C7: once the hook exists, no step changes the options value or the hook,
\* and every invocation installs the same handler and timeouts as every
\* other.
C7_ConfigurationFrozen ==
    /\ [][phase = "serve" => (opt' = opt /\ hook' = hook /\ phase' = phase)]_vars
    /\ [](\A c, d \in Conns :
              (PastSetters(c) /\ PastSetters(d)) =>
                  (InstalledView(c) = InstalledView(d) /\ InstalledView(c) = Installed))

\* a later invocation has installed the same non-zero timeouts as a finished
\* one
C7_Witness ==
    \E c, d \in Conns :
        /\ c # d
        /\ pc[c] = "done" /\ pc[d] = "done"
        /\ opt.readTimeout # 0 /\ opt.idleTimeout # 0
        /\ InstalledView(c) = Installed /\ InstalledView(d) = Installed

C6_Passthrough ==
    /\ [](/\ api.calls = engine.calls
          /\ api.lastOp = engine.lastOp
          /\ api.lastArg = engine.lastArg
          /\ api.lastRet = engine.lastRet)
    /\ [][/\ api'.calls = api.calls + 1
          /\ engine'.calls = engine.calls + 1
          /\ UNCHANGED <<optionVars, connVars>>]_vars

\* a rejected negative poller count after an accepted call, beside a
\* non-zero options value
C6_Witness ==
    /\ api.calls = 2
    /\ api.lastOp = "setNumLoops" /\ api.lastArg < 0 /\ api.lastRet = "err"
    /\ engine.gopoolDisabled
    /\ opt.readTimeout # 0 /\ opt.onPrepare # Nil

====
